---- MODULE Spec2Model ----
(***************************************************************************)
(* Model of the Ren'Py debug adapter bridge (src/src/debugger.ts, class    *)
(* RenpyDAPDebugSession): the session fields, the socket event handlers,   *)
(* the host request handlers, the frame encoder of sendDAPRequest and the  *)
(* frame decoder of handleDAPMessage.                                       *)
(*                                                                         *)
(* Text is modelled as a sequence of one-character strings (UTF-16 code    *)
(* units); bytes on the socket as a sequence of byte tokens. ASCII          *)
(* characters and their bytes share a token; the two-byte character        *)
(* U+00E9 is the bytes 0xC3 0xA9.                                           *)
(***************************************************************************)
EXTENDS Integers, Sequences, FiniteSets, TLC

VARIABLES
    socket,           \* this.socket: "none" | "connecting" | "open" | "closing" | "closed"
    isConnected,      \* this.isConnected
    sequenceNumber,   \* this.sequenceNumber
    pendingRequests,  \* keys of this.pendingRequests
    breakpoints,      \* this.breakpoints: path -> list of lines
    renpyProcess,     \* this.renpyProcess: "unset" | "running" | "disposed"
    buffer,           \* this.buffer
    launchPc,         \* position of the async launchRequest / attachRequest
    promise,          \* promise of connectToDAP: "none" | "pending" | "resolved" | "rejected"
    timeout,          \* the 10 s timer of connectToDAP: "none" | "armed" | "cleared" | "fired"
    requests,         \* the request objects built by sendDAPRequest, in order
    wire,             \* the strings given to socket.write, in order
    hostResponses,    \* sendResponse calls, in order
    hostEvents,       \* sendEvent calls, in order
    terminalText,     \* number of commands sent to the terminal
    dispatched,       \* results of JSON.parse handed to processDAPMessage, in order
    resumed,          \* request sequence numbers whose pending callback was invoked
    answered,         \* request sequence numbers the remote has answered
    remoteClosed,     \* the remote has closed or reset the connection
    disconnects,      \* number of disconnect requests handled
    input,            \* the byte stream the remote sends (codec specifications)
    pos,              \* number of bytes of input already delivered
    feeds,            \* number of 'data' events delivered from input
    launchArgs,       \* args of the launch / attach request: [port, debugPort], 0 = absent
    commandPort,      \* --port of the command sent to the terminal, 0 = no command
    connectPort,      \* port given to socket.connect, 0 = no attempt
    looping,          \* the while loop of handleDAPMessage is running (decoder specification)
    sceneState,       \* SceneInspectorProvider.sceneState: "null" | "state"
    activeSession,    \* SceneInspectorProvider.activeSession: 0 = null, else the session
    refreshInterval,  \* SceneInspectorProvider.refreshInterval: 0 = null, else the timer
    timers,           \* the interval timers that are running
    inflight,         \* customRequest("getSceneState") calls not yet settled: the sessions asked
    sessions,         \* the host's debug sessions: "none" | "running" | "terminated"
    refreshes,        \* number of customRequest calls made
    program,          \* what Configuration.getRenpyExecutablePath() gave RenpyDebugSession
    modePc,           \* RenpyDebugSession: "created" | "done"
    modeLog           \* terminal, toast and sendEvent calls of RenpyDebugSession, in order

inspectorVars == <<sceneState, activeSession, refreshInterval, timers, inflight,
                   sessions, refreshes>>
modeVars == <<program, modePc, modeLog>>
extVars == <<inspectorVars, modeVars>>

vars == <<socket, isConnected, sequenceNumber, pendingRequests, breakpoints,
          renpyProcess, buffer, launchPc, promise, timeout, requests, wire,
          hostResponses, hostEvents, terminalText, dispatched, resumed,
          answered, remoteClosed, disconnects, input, pos, feeds,
          launchArgs, commandPort, connectPort, looping, extVars>>

dapVars == <<socket, isConnected, sequenceNumber, pendingRequests, breakpoints,
             renpyProcess, buffer, launchPc, promise, timeout, requests, wire,
             hostResponses, hostEvents, terminalText, dispatched, resumed,
             answered, remoteClosed, disconnects, input, pos, feeds,
             launchArgs, commandPort, connectPort, looping>>

portVars == <<launchArgs, commandPort, connectPort>>

(***************************************************************************)
(* Bounds of the model.                                                    *)
(***************************************************************************)
MaxInputs == 2       \* forwarded host operations plus inbound frames per session
MaxDisconnects == 2  \* disconnect requests per session
MaxFrames == 2       \* frames per stream in the codec specification

(***************************************************************************)
(* Sequences helpers.                                                      *)
(***************************************************************************)
RECURSIVE Flatten(_)
Flatten(ss) == IF ss = <<>> THEN <<>> ELSE Head(ss) \o Flatten(Tail(ss))

Range(s) == {s[i] : i \in DOMAIN s}

Digit == <<"0", "1", "2", "3", "4", "5", "6", "7", "8", "9">>

IsDigit(c) == \E d \in DOMAIN Digit : Digit[d] = c

DigitValue(c) == (CHOOSE d \in DOMAIN Digit : Digit[d] = c) - 1

\* Number to decimal text, as template-literal interpolation of a number does.
RECURSIVE NumberToString(_)
NumberToString(n) ==
    IF n < 10 THEN <<Digit[n + 1]>>
    ELSE Append(NumberToString(n \div 10), Digit[(n % 10) + 1])

\* parseInt of a non-empty run of decimal digits.
RECURSIVE ParseInt(_)
ParseInt(ds) ==
    IF Len(ds) = 1 THEN DigitValue(ds[1])
    ELSE 10 * ParseInt(SubSeq(ds, 1, Len(ds) - 1)) + DigitValue(ds[Len(ds)])

(***************************************************************************)
(* UTF-8: socket.write(string) encodes, data.toString() decodes.           *)
(***************************************************************************)
EAcute == "U+00E9"         \* a character of two UTF-8 bytes
Replacement == "U+FFFD"    \* what toString() yields for an invalid byte sequence
LeadByte == "0xC3"
ContByte == "0xA9"

\* The bytes of a string, character by character (halving keeps the
\* evaluation shallow).
RECURSIVE Utf8Encode(_)
Utf8Encode(str) ==
    IF str = <<>> THEN <<>>
    ELSE IF Len(str) = 1
    THEN (IF str[1] = EAcute THEN <<LeadByte, ContByte>> ELSE str)
    ELSE LET h == Len(str) \div 2
         IN  Utf8Encode(SubSeq(str, 1, h)) \o Utf8Encode(SubSeq(str, h + 1, Len(str)))

\* Buffer.toString(): a lead byte with its continuation byte yields the
\* character; a lead byte without it, or a continuation byte without a lead
\* byte before it, yields U+FFFD; any other byte yields its character.
BufferToString(bytes) ==
    LET decoded == [i \in 1..Len(bytes) |->
            IF bytes[i] = LeadByte
            THEN (IF i < Len(bytes) /\ bytes[i + 1] = ContByte THEN EAcute ELSE Replacement)
            ELSE IF bytes[i] = ContByte
            THEN (IF i > 1 /\ bytes[i - 1] = LeadByte THEN "" ELSE Replacement)
            ELSE bytes[i]]
        Kept(c) == c # ""
    IN  SelectSeq(decoded, Kept)

(***************************************************************************)
(* Messages and their JSON text.                                           *)
(*                                                                         *)
(* A message is a record with every field of the three wire shapes; a      *)
(* field a shape does not carry holds its default ("none", 0, <<>>).       *)
(* The JSON text of a message is one character per scalar field between    *)
(* braces, the breakpoint lines as digits closed by ";", then the free     *)
(* text (output text or failure message) as it is: the text's length in    *)
(* code units and in bytes varies with the message as JSON's does.         *)
(***************************************************************************)
Types == <<"request", "response", "event">>
TypeChars == <<"q", "r", "e">>

Names == <<"none", "initialize", "setBreakpoints", "configurationDone", "continue",
           "next", "stepIn", "stepOut", "pause", "disconnect",
           "stopped", "breakpoint", "output", "thread">>
NameChars == <<"_", "I", "B", "D", "c", "n", "i", "o", "p", "x",
               "S", "K", "O", "T">>

Reasons == <<"", "breakpoint", "step", "changed">>
ReasonChars == <<"_", "k", "s", "h">>

Paths == <<"", "/game/script.rpy", "/game/other.rpy">>
PathChars == <<"_", "A", "B">>

IndexIn(seq, x) == CHOOSE i \in DOMAIN seq : seq[i] = x

Message(type, seq, name, request_seq, success, hasBody, reason, threadId, path, lines, text) ==
    [type |-> type, seq |-> seq, name |-> name, request_seq |-> request_seq,
     success |-> success, hasBody |-> hasBody, reason |-> reason,
     threadId |-> threadId, path |-> path, lines |-> lines, text |-> text]

\* What the catch clause of handleDAPMessage sees instead of a message.
SyntaxError == Message("SyntaxError", 0, "none", 0, FALSE, FALSE, "", 0, "", <<>>, <<>>)

JSONStringify(m) ==
    <<"{", TypeChars[IndexIn(Types, m.type)], Digit[m.seq + 1],
      NameChars[IndexIn(Names, m.name)], Digit[m.request_seq + 1],
      IF m.success THEN "t" ELSE "f", IF m.hasBody THEN "b" ELSE "u",
      ReasonChars[IndexIn(Reasons, m.reason)], Digit[m.threadId + 1],
      PathChars[IndexIn(Paths, m.path)]>>
    \o [i \in 1..Len(m.lines) |-> Digit[m.lines[i] + 1]]
    \o <<";">> \o m.text \o <<"}">>

\* JSON.parse: the message of a well-formed text, SyntaxError otherwise.
JSONParse(str) ==
    LET n == Len(str)
        semis == {k \in 11..n : str[k] = ";"}
    IN  IF /\ n >= 12
           /\ str[1] = "{"
           /\ str[n] = "}"
           /\ str[2] \in Range(TypeChars)
           /\ IsDigit(str[3])
           /\ str[4] \in Range(NameChars)
           /\ IsDigit(str[5])
           /\ str[6] \in {"t", "f"}
           /\ str[7] \in {"b", "u"}
           /\ str[8] \in Range(ReasonChars)
           /\ IsDigit(str[9])
           /\ str[10] \in Range(PathChars)
           /\ semis # {}
           /\ LET k == CHOOSE j \in semis : \A j2 \in semis : j <= j2
              IN  /\ k < n
                  /\ \A j \in 11..(k - 1) : IsDigit(str[j])
        THEN LET k == CHOOSE j \in semis : \A j2 \in semis : j <= j2
             IN  Message(Types[IndexIn(TypeChars, str[2])], DigitValue(str[3]),
                         Names[IndexIn(NameChars, str[4])], DigitValue(str[5]),
                         str[6] = "t", str[7] = "b",
                         Reasons[IndexIn(ReasonChars, str[8])], DigitValue(str[9]),
                         Paths[IndexIn(PathChars, str[10])],
                         [j \in 1..(k - 11) |-> DigitValue(str[10 + j])],
                         SubSeq(str, k + 1, n - 1))
        ELSE SyntaxError

(***************************************************************************)
(* The frame encoder of sendDAPRequest.                                    *)
(***************************************************************************)
ContentLengthKey == <<"C", "o", "n", "t", "e", "n", "t", "-", "L", "e", "n", "g", "t", "h", ":", " ">>
HeaderEnd == <<"\r", "\n", "\r", "\n">>

\* Mutant: the header states the payload's length in UTF-8 bytes.
MutFrameByteLength(jsonStr) ==
    ContentLengthKey \o NumberToString(Len(Utf8Encode(jsonStr))) \o HeaderEnd \o jsonStr

\* `Content-Length: ${jsonStr.length}\r\n\r\n${jsonStr}`: length in code units.
Frame(jsonStr) ==
    ContentLengthKey \o NumberToString(Len(jsonStr)) \o HeaderEnd \o jsonStr

(***************************************************************************)
(* The frame decoder of handleDAPMessage. Indices are the code's: 0-based, *)
(* substring(a, b) is SubSeq(s, a + 1, b).                                 *)
(***************************************************************************)
Substring(s, a, b) == SubSeq(s, a + 1, b)

\* String.prototype.indexOf: the first index of pat in s, or -1.
IndexOf(s, pat) ==
    LET hits == {i \in 0..(Len(s) - Len(pat)) :
                    s[i + 1] = pat[1] /\ Substring(s, i, i + Len(pat)) = pat}
    IN  IF hits = {} THEN -1 ELSE CHOOSE i \in hits : \A j \in hits : i <= j

\* header.match(/Content-Length: (\d+)/): the first group of the leftmost
\* match (the longest run of digits after the key), or <<>> when none.
ContentLengthMatch(header) ==
    LET k == Len(ContentLengthKey)
        hits == {i \in 0..(Len(header) - k - 1) :
                    /\ header[i + 1] = ContentLengthKey[1]
                    /\ Substring(header, i, i + k) = ContentLengthKey
                    /\ IsDigit(header[i + k + 1])}
    IN  IF hits = {} THEN <<>>
        ELSE LET i == CHOOSE h \in hits : \A j \in hits : h <= j
                 stop == CHOOSE e \in (i + k + 1)..Len(header) :
                            /\ \A j \in (i + k + 1)..e : IsDigit(header[j])
                            /\ (e = Len(header) \/ ~IsDigit(header[e + 1]))
             IN  Substring(header, i + k, stop)

\* Mutant: the header goes, its terminator stays.
MutSkipHeaderKeepsTerminator(buf, headerEnd) == Substring(buf, headerEnd, Len(buf))

\* Mutant: a header without Content-Length discards the whole buffer.
MutSkipHeaderDropsBuffer(buf, headerEnd) == <<>>

\* this.buffer.substring(headerEnd + 4): the header and its terminator go.
SkipHeader(buf, headerEnd) == Substring(buf, headerEnd + 4, Len(buf))

\* One pass through the body of the while loop of handleDAPMessage on a
\* buffer: whether it breaks, the buffer it leaves, and the jsonContent it
\* cuts out (hasJson: it reached the try block).
Iteration(buf) ==
    LET headerEnd == IndexOf(buf, HeaderEnd)
        stop == [stop |-> TRUE, buffer |-> buf, hasJson |-> FALSE, jsonContent |-> <<>>]
    IN  IF headerEnd = -1 THEN stop
        ELSE LET header == Substring(buf, 0, headerEnd)
                 contentLengthMatch == ContentLengthMatch(header)
             IN  IF contentLengthMatch = <<>>
                 THEN [stop |-> FALSE, buffer |-> SkipHeader(buf, headerEnd),
                       hasJson |-> FALSE, jsonContent |-> <<>>]
                 ELSE LET contentLength == ParseInt(contentLengthMatch)
                          messageStart == headerEnd + 4
                      IN  IF Len(buf) < messageStart + contentLength
                          THEN stop
                          ELSE [stop |-> FALSE,
                                buffer |-> Substring(buf, messageStart + contentLength,
                                                     Len(buf)),
                                hasJson |-> TRUE,
                                jsonContent |-> Substring(buf, messageStart,
                                                          messageStart + contentLength)]

\* The while loop of handleDAPMessage on a buffer: the buffer it leaves and
\* the jsonContent strings it cuts out, in order.
RECURSIVE DecodeLoop(_, _)
DecodeLoop(buf, out) ==
    LET it == Iteration(buf)
    IN  IF it.stop THEN [buffer |-> buf, out |-> out]
        ELSE DecodeLoop(it.buffer,
                        IF it.hasJson THEN Append(out, it.jsonContent) ELSE out)

(***************************************************************************)
(* Notifications and responses the session gives to the host.              *)
(***************************************************************************)
HostEvent(event, reason, threadId, category, text) ==
    [event |-> event, reason |-> reason, threadId |-> threadId,
     category |-> category, text |-> text]

OutputEvent(text, category) == HostEvent("output", "", 0, category, text)
TerminatedEvent == HostEvent("terminated", "", 0, "", <<>>)
InitializedEvent == HostEvent("initialized", "", 0, "", <<>>)
\* Mutant: the stopped notification carries no thread id.
MutStoppedEventNoThread(reason, threadId) == HostEvent("stopped", reason, 0, "", <<>>)

StoppedEvent(reason, threadId) == HostEvent("stopped", reason, threadId, "", <<>>)
BreakpointEvent(reason) == HostEvent("breakpoint", reason, 0, "", <<>>)

Response(command, success, body) ==
    [command |-> command, success |-> success, body |-> body]

\* a || b of JavaScript, for a string and for a number.
OrString(a, b) == IF a = "" THEN b ELSE a
OrNumber(a, b) == IF a = 0 THEN b ELSE a

(***************************************************************************)
(* processDAPMessage and the handlers it calls, on the part of the state   *)
(* they touch: st = [hostEvents, pendingRequests, resumed, dispatched].    *)
(***************************************************************************)
ParseFailure == OutputEvent(<<"Failed to parse DAP message">>, "stderr")

\* Mutant: an event with another name is reported to the host as output.
MutHandleDAPEventDefault(st, event) ==
    IF event.name \in {"stopped", "breakpoint", "output"} /\ ~event.hasBody
    THEN [st EXCEPT !.hostEvents = Append(@, ParseFailure)]
    ELSE IF event.name = "stopped"
    THEN [st EXCEPT !.hostEvents =
            Append(@, StoppedEvent(OrString(event.reason, "breakpoint"), OrNumber(event.threadId, 0)))]
    ELSE IF event.name = "breakpoint"
    THEN [st EXCEPT !.hostEvents = Append(@, BreakpointEvent(OrString(event.reason, "changed")))]
    ELSE [st EXCEPT !.hostEvents = Append(@, OutputEvent(event.text, "console"))]

\* handleDAPEvent; reading a field of an absent body throws, which the
\* catch clause of handleDAPMessage reports.
HandleDAPEvent(st, event) ==
    IF event.name \in {"stopped", "breakpoint", "output"} /\ ~event.hasBody
    THEN [st EXCEPT !.hostEvents = Append(@, ParseFailure)]
    ELSE IF event.name = "stopped"
    THEN [st EXCEPT !.hostEvents =
            Append(@, StoppedEvent(OrString(event.reason, "breakpoint"), OrNumber(event.threadId, 0)))]
    ELSE IF event.name = "breakpoint"
    THEN [st EXCEPT !.hostEvents = Append(@, BreakpointEvent(OrString(event.reason, "changed")))]
    ELSE IF event.name = "output"
    THEN [st EXCEPT !.hostEvents = Append(@, OutputEvent(event.text, "console"))]
    ELSE st

\* Mutant: a response without a pending entry is reported to the host.
MutHandleDAPResponseReports(st, response) ==
    IF response.request_seq \in st.pendingRequests
    THEN [st EXCEPT !.pendingRequests = @ \ {response.request_seq},
                    !.resumed = @ \cup {response.request_seq}]
    ELSE [st EXCEPT !.hostEvents = Append(@, OutputEvent(<<"Unmatched response">>, "stderr"))]

HandleDAPResponse(st, response) ==
    IF response.request_seq \in st.pendingRequests
    THEN [st EXCEPT !.pendingRequests = @ \ {response.request_seq},
                    !.resumed = @ \cup {response.request_seq}]
    ELSE st

\* Mutant: a message with the content of a translated event is handled as
\* an event, whatever its type.
MutProcessDAPMessageByContent(st, message) ==
    IF message.name \in {"stopped", "breakpoint", "output"} THEN HandleDAPEvent(st, message)
    ELSE IF message.type = "response" THEN HandleDAPResponse(st, message)
    ELSE st

ProcessDAPMessage(st, message) ==
    IF message.type = "event" THEN HandleDAPEvent(st, message)
    ELSE IF message.type = "response" THEN HandleDAPResponse(st, message)
    ELSE st

\* The try block of handleDAPMessage on one jsonContent.
TryProcess(st, jsonContent) ==
    LET message == JSONParse(jsonContent)
    IN  IF message = SyntaxError
        THEN [st EXCEPT !.hostEvents = Append(@, ParseFailure)]
        ELSE ProcessDAPMessage([st EXCEPT !.dispatched = Append(@, message)], message)

RECURSIVE ProcessAll(_, _)
ProcessAll(st, jsons) ==
    IF jsons = <<>> THEN st ELSE ProcessAll(TryProcess(st, Head(jsons)), Tail(jsons))

\* handleDAPMessage(data): the buffer and the part of the state it leaves.
HandleDAPMessage(buf, st, data) ==
    LET r == DecodeLoop(buf \o data, <<>>)
    IN  [buffer |-> r.buffer, st |-> ProcessAll(st, r.out)]

\* The 'data' handler of the socket: handleDAPMessage(data.toString()).
OnSocketData(bytes) ==
    LET r == HandleDAPMessage(buffer,
                 [hostEvents |-> hostEvents, pendingRequests |-> pendingRequests,
                  resumed |-> resumed, dispatched |-> dispatched],
                 BufferToString(bytes))
    IN  /\ buffer' = r.buffer
        /\ hostEvents' = r.st.hostEvents
        /\ pendingRequests' = r.st.pendingRequests
        /\ resumed' = r.st.resumed
        /\ dispatched' = r.st.dispatched

(***************************************************************************)
(* sendDAPRequest.                                                         *)
(***************************************************************************)
\* Mutant: the counter is read but not advanced.
MutSequenceNumberKept(n) == n

NextSequenceNumber(n) == n + 1

Request(seq, command, threadId, path, lines) ==
    Message("request", seq, command, 0, FALSE, FALSE, "", threadId, path, lines, <<>>)

\* Mutant: the header and the payload go to the socket in two writes.
\* Mutant: the sequence number is taken before the connection is tested.
MutSendDAPRequestCountsFirst(connected, command, threadId, path, lines) ==
    IF socket = "none" \/ ~connected
    THEN /\ sequenceNumber' = NextSequenceNumber(sequenceNumber)
         /\ UNCHANGED <<requests, wire>>
    ELSE LET request == Request(sequenceNumber, command, threadId, path, lines)
         IN  /\ sequenceNumber' = NextSequenceNumber(sequenceNumber)
             /\ requests' = Append(requests, request)
             /\ wire' = Append(wire, Frame(JSONStringify(request)))

MutSendDAPRequestTwoWrites(connected, command, threadId, path, lines) ==
    IF socket = "none" \/ ~connected
    THEN UNCHANGED <<sequenceNumber, requests, wire>>
    ELSE LET request == Request(sequenceNumber, command, threadId, path, lines)
             jsonStr == JSONStringify(request)
         IN  /\ sequenceNumber' = NextSequenceNumber(sequenceNumber)
             /\ requests' = Append(requests, request)
             /\ wire' = wire \o <<ContentLengthKey \o NumberToString(Len(jsonStr)) \o HeaderEnd,
                                  jsonStr>>

\* connected is this.isConnected at the time of the call.
SendDAPRequest(connected, command, threadId, path, lines) ==
    IF socket = "none" \/ ~connected
    THEN UNCHANGED <<sequenceNumber, requests, wire>>
    ELSE LET request == Request(sequenceNumber, command, threadId, path, lines)
         IN  /\ sequenceNumber' = NextSequenceNumber(sequenceNumber)
             /\ requests' = Append(requests, request)
             /\ wire' = Append(wire, Frame(JSONStringify(request)))

(***************************************************************************)
(* Inputs of the host and of the remote.                                   *)
(***************************************************************************)
ThreadIds == {1, 2}
\* Launch and attach configurations: no port field, "port", "debugPort".
NoArgs == [port |-> 0, debugPort |-> 0]
LaunchConfigs == {NoArgs, [port |-> 5678, debugPort |-> 0], [port |-> 0, debugPort |-> 5678]}
AttachConfigs == {NoArgs, [port |-> 5678, debugPort |-> 0]}
SourcePaths == {"", "/game/script.rpy", "/game/other.rpy"}
LineLists == {<<>>, <<2, 1>>}
StepCommands == {"continue", "next", "stepIn", "stepOut", "pause"}
Forwarded == StepCommands \cup {"setBreakpoints", "configurationDone"}

\* Host operations forwarded so far.
OpsDone == Cardinality({i \in DOMAIN hostResponses : hostResponses[i].command \in Forwarded})

\* The host sends initialize first, then launch or attach once.
Initialized == launchPc # "created"

(***************************************************************************)
(* Host request handlers.                                                  *)
(***************************************************************************)
InitializeRequest ==
    /\ launchPc = "created"
    /\ launchPc' = "idle"
    /\ hostResponses' = Append(hostResponses, Response("initialize", TRUE, <<>>))
    /\ hostEvents' = Append(hostEvents, InitializedEvent)
    /\ UNCHANGED <<socket, isConnected, sequenceNumber, pendingRequests, breakpoints,
                   renpyProcess, buffer, promise, timeout, requests, wire, terminalText,
                   dispatched, resumed, answered, remoteClosed, disconnects, input, pos,
                   feeds, portVars, looping, extVars>>

\* new net.Socket(), the handlers, the timer and socket.connect of connectToDAP.
BeginConnect(port) ==
    /\ socket' = "connecting"
    /\ promise' = "pending"
    /\ timeout' = "armed"
    /\ connectPort' = port

\* const port = args.port || 14711.
DefaultPort == 14711
PortOf(args) == OrNumber(args.port, DefaultPort)

\* Mutant: the terminal command is started without looking at the executable.
MutLaunchRequestUnchecked(validExecutable, args) ==
    /\ launchPc = "idle"
    /\ launchArgs' = args
    /\ commandPort' = PortOf(args)
    /\ renpyProcess' = "running"
    /\ hostEvents' = Append(hostEvents,
           OutputEvent(<<"Starting Ren'Py with DAP debugging">>, "console"))
    /\ terminalText' = terminalText + 1
    /\ launchPc' = "starting"
    /\ UNCHANGED <<socket, isConnected, sequenceNumber, pendingRequests, breakpoints,
                   buffer, promise, timeout, requests, wire, hostResponses, dispatched,
                   resumed, answered, remoteClosed, disconnects, input, pos, feeds,
                   connectPort, looping, extVars>>

\* launchRequest up to its first await that suspends: startRenpyWithDAP
\* throws on an invalid executable, else starts the terminal command and
\* waits 2 s.
LaunchRequest(validExecutable, args) ==
    /\ launchPc = "idle"
    /\ launchArgs' = args
    /\ IF validExecutable
       THEN /\ renpyProcess' = "running"
            /\ commandPort' = PortOf(args)
            /\ hostEvents' = Append(hostEvents,
                   OutputEvent(<<"Starting Ren'Py with DAP debugging">>, "console"))
            /\ terminalText' = terminalText + 1
            /\ launchPc' = "starting"
            /\ UNCHANGED hostResponses
       ELSE /\ hostResponses' = Append(hostResponses, Response("launch", FALSE, <<>>))
            /\ launchPc' = "done"
            /\ UNCHANGED <<renpyProcess, hostEvents, terminalText, commandPort>>
    /\ UNCHANGED <<socket, isConnected, sequenceNumber, pendingRequests, breakpoints,
                   buffer, promise, timeout, requests, wire, dispatched, resumed,
                   answered, remoteClosed, disconnects, input, pos, feeds,
                   connectPort, looping, extVars>>

\* The 2 s timer of startRenpyWithDAP fires: launchRequest goes on to connectToDAP.
StartTimerFires ==
    /\ launchPc = "starting"
    /\ launchPc' = "launching"
    /\ BeginConnect(PortOf(launchArgs))
    /\ UNCHANGED <<isConnected, sequenceNumber, pendingRequests, breakpoints, renpyProcess,
                   buffer, requests, wire, hostResponses, hostEvents, terminalText,
                   dispatched, resumed, answered, remoteClosed, disconnects, input, pos,
                   feeds, launchArgs, commandPort, looping, extVars>>

\* Mutant: attach starts the terminal command as launch does, then connects.
MutAttachRequestSpawns(args) ==
    /\ launchPc = "idle"
    /\ launchPc' = "attaching"
    /\ launchArgs' = args
    /\ renpyProcess' = "running"
    /\ terminalText' = terminalText + 1
    /\ BeginConnect(PortOf(args))
    /\ UNCHANGED <<isConnected, sequenceNumber, pendingRequests, breakpoints,
                   buffer, requests, wire, hostResponses, hostEvents,
                   dispatched, resumed, answered, remoteClosed, disconnects, input, pos,
                   feeds, commandPort, looping, extVars>>

AttachRequest(args) ==
    /\ launchPc = "idle"
    /\ launchPc' = "attaching"
    /\ launchArgs' = args
    /\ BeginConnect(PortOf(args))
    /\ UNCHANGED <<isConnected, sequenceNumber, pendingRequests, breakpoints, renpyProcess,
                   buffer, requests, wire, hostResponses, hostEvents, terminalText,
                   dispatched, resumed, answered, remoteClosed, disconnects, input, pos,
                   feeds, commandPort, looping, extVars>>

\* Mutant: every resolve() or reject() resumes the awaiting handler, also
\* when the promise is settled already.
MutSettleAlways(outcome, responses) ==
    /\ promise' = outcome
    /\ hostResponses' = Append(responses,
           Response(IF launchPc = "launching" THEN "launch" ELSE "attach",
                    outcome = "resolved", <<>>))
    /\ launchPc' = "done"

\* resolve() or reject() of the connectToDAP promise, and the continuation
\* of the awaiting launchRequest / attachRequest (a microtask: nothing runs
\* in between). A settled promise ignores further calls.
Settle(outcome, responses) ==
    IF promise = "pending"
    THEN /\ promise' = outcome
         /\ hostResponses' = Append(responses,
                Response(IF launchPc = "launching" THEN "launch" ELSE "attach",
                         outcome = "resolved", <<>>))
         /\ launchPc' = "done"
    ELSE /\ hostResponses' = responses
         /\ UNCHANGED <<promise, launchPc>>

(***************************************************************************)
(* Socket events and the timer of connectToDAP.                            *)
(***************************************************************************)
\* Mutant: the 'connect' handler sets the flag and resolves without
\* sending the handshake request.
MutSocketConnectNoHandshake ==
    /\ socket = "connecting"
    /\ socket' = "open"
    /\ isConnected' = TRUE
    /\ hostEvents' = Append(hostEvents,
           OutputEvent(<<"Connected to Ren'Py DAP server">>, "console"))
    /\ Settle("resolved", hostResponses)
    /\ timeout' = IF timeout = "armed" THEN "cleared" ELSE timeout
    /\ UNCHANGED <<sequenceNumber, requests, wire, pendingRequests, breakpoints,
                   renpyProcess, buffer, terminalText,
                   dispatched, resumed, answered, remoteClosed, disconnects, input, pos,
                   feeds, portVars, looping, extVars>>

\* 'connect': the handler of line 171, then the callback of socket.connect.
SocketConnect ==
    /\ socket = "connecting"
    /\ socket' = "open"
    /\ isConnected' = TRUE
    /\ hostEvents' = Append(hostEvents,
           OutputEvent(<<"Connected to Ren'Py DAP server">>, "console"))
    /\ SendDAPRequest(TRUE, "initialize", 0, "", <<>>)
    /\ Settle("resolved", hostResponses)
    /\ timeout' = IF timeout = "armed" THEN "cleared" ELSE timeout
    /\ UNCHANGED <<pendingRequests, breakpoints, renpyProcess, buffer, terminalText,
                   dispatched, resumed, answered, remoteClosed, disconnects, input, pos,
                   feeds, portVars, looping, extVars>>

\* 'error' (refused while connecting, reset while open); 'close' follows.
SocketError ==
    /\ socket \in {"connecting", "open"}
    /\ hostEvents' = Append(hostEvents, OutputEvent(<<"DAP connection error">>, "stderr"))
    /\ Settle("rejected", hostResponses)
    /\ remoteClosed' = (remoteClosed \/ socket = "open")
    /\ socket' = "closing"
    /\ UNCHANGED <<isConnected, sequenceNumber, pendingRequests, breakpoints, renpyProcess,
                   buffer, timeout, requests, wire, terminalText, dispatched, resumed,
                   answered, disconnects, input, pos, feeds, portVars, looping, extVars>>

\* The remote ends the connection: the socket is destroyed, 'close' follows.
RemoteEnd ==
    /\ socket = "open"
    /\ socket' = "closing"
    /\ remoteClosed' = TRUE
    /\ UNCHANGED <<isConnected, sequenceNumber, pendingRequests, breakpoints, renpyProcess,
                   buffer, launchPc, promise, timeout, requests, wire, hostResponses,
                   hostEvents, terminalText, dispatched, resumed, answered, disconnects,
                   input, pos, feeds, portVars, looping, extVars>>

\* Mutant: the 'close' handler clears the flag and logs, without TerminatedEvent.
MutSocketCloseSilent ==
    /\ socket = "closing"
    /\ socket' = "closed"
    /\ isConnected' = FALSE
    /\ hostEvents' = Append(hostEvents, OutputEvent(<<"DAP connection closed">>, "console"))
    /\ UNCHANGED <<sequenceNumber, pendingRequests, breakpoints, renpyProcess, buffer,
                   launchPc, promise, timeout, requests, wire, hostResponses, terminalText,
                   dispatched, resumed, answered, remoteClosed, disconnects, input, pos,
                   feeds, portVars, looping, extVars>>

\* 'close'.
SocketClose ==
    /\ socket = "closing"
    /\ socket' = "closed"
    /\ isConnected' = FALSE
    /\ hostEvents' = hostEvents \o
           <<OutputEvent(<<"DAP connection closed">>, "console"), TerminatedEvent>>
    /\ UNCHANGED <<sequenceNumber, pendingRequests, breakpoints, renpyProcess, buffer,
                   launchPc, promise, timeout, requests, wire, hostResponses, terminalText,
                   dispatched, resumed, answered, remoteClosed, disconnects, input, pos,
                   feeds, portVars, looping, extVars>>

\* Mutant: the timer fires without rejecting the promise.
MutTimeoutFiresSilent ==
    /\ timeout = "armed"
    /\ timeout' = "fired"
    /\ UNCHANGED <<socket, isConnected, sequenceNumber, pendingRequests, breakpoints,
                   renpyProcess, buffer, launchPc, promise, requests, wire, hostResponses,
                   hostEvents, terminalText, dispatched, resumed, answered, remoteClosed,
                   disconnects, input, pos, feeds, portVars, looping, extVars>>

\* The 10 s timer fires; only the 'connect' callback clears it.
TimeoutFires ==
    /\ timeout = "armed"
    /\ timeout' = "fired"
    /\ Settle("rejected", hostResponses)
    /\ UNCHANGED <<socket, isConnected, sequenceNumber, pendingRequests, breakpoints,
                   renpyProcess, buffer, requests, wire, hostEvents, terminalText,
                   dispatched, resumed, answered, remoteClosed, disconnects, input, pos,
                   feeds, portVars, looping, extVars>>

(***************************************************************************)
(* Forwarded host operations and disconnect.                               *)
(***************************************************************************)
\* Mutant: the response lists no breakpoint.
MutVerifiedNone(lines) == <<>>

\* response.body.breakpoints: one verified entry per requested breakpoint.
Verified(lines) == [i \in 1..Len(lines) |-> [verified |-> TRUE, line |-> lines[i]]]

\* Mutant: the lines of a call are added to those recorded for the path.
MutBreakpointsAdd(map, path, lines) ==
    [p \in DOMAIN map \cup {path} |->
        IF p = path THEN (IF p \in DOMAIN map THEN map[p] ELSE <<>>) \o lines ELSE map[p]]

\* this.breakpoints.set(path, lines) of a Map.
BreakpointsSet(map, path, lines) ==
    [p \in DOMAIN map \cup {path} |-> IF p = path THEN lines ELSE map[p]]

\* Mutant: the source's path is not tested.
MutSetBreakPointsRequestAnyPath(path, lines) ==
    /\ Initialized
    /\ OpsDone + feeds < MaxInputs
    /\ breakpoints' = BreakpointsSet(breakpoints, path, lines)
    /\ SendDAPRequest(isConnected, "setBreakpoints", 0, path, lines)
    /\ hostResponses' = Append(hostResponses,
           Response("setBreakpoints", TRUE, Verified(lines)))
    /\ UNCHANGED <<socket, isConnected, pendingRequests, renpyProcess, buffer, launchPc,
                   promise, timeout, hostEvents, terminalText, dispatched, resumed,
                   answered, remoteClosed, disconnects, input, pos, feeds, portVars,
                   looping, extVars>>

SetBreakPointsRequest(path, lines) ==
    /\ Initialized
    /\ OpsDone + feeds < MaxInputs
    /\ IF path = ""
       THEN /\ hostResponses' = Append(hostResponses, Response("setBreakpoints", TRUE, <<>>))
            /\ UNCHANGED <<breakpoints, sequenceNumber, requests, wire>>
       ELSE /\ breakpoints' = BreakpointsSet(breakpoints, path, lines)
            /\ SendDAPRequest(isConnected, "setBreakpoints", 0, path, lines)
            /\ hostResponses' = Append(hostResponses,
                   Response("setBreakpoints", TRUE, Verified(lines)))
    /\ UNCHANGED <<socket, isConnected, pendingRequests, renpyProcess, buffer, launchPc,
                   promise, timeout, hostEvents, terminalText, dispatched, resumed,
                   answered, remoteClosed, disconnects, input, pos, feeds, portVars,
                   looping, extVars>>

ConfigurationDoneRequest ==
    /\ Initialized
    /\ OpsDone + feeds < MaxInputs
    /\ SendDAPRequest(isConnected, "configurationDone", 0, "", <<>>)
    /\ hostResponses' = Append(hostResponses, Response("configurationDone", TRUE, <<>>))
    /\ UNCHANGED <<socket, isConnected, pendingRequests, breakpoints, renpyProcess, buffer,
                   launchPc, promise, timeout, hostEvents, terminalText, dispatched,
                   resumed, answered, remoteClosed, disconnects, input, pos, feeds,
                   portVars, looping, extVars>>

\* continueRequest, nextRequest, stepInRequest, stepOutRequest, pauseRequest.
\* Mutant: the stepping request goes out without the host's thread id.
MutStepRequestNoThread(command, threadId) ==
    /\ Initialized
    /\ OpsDone + feeds < MaxInputs
    /\ SendDAPRequest(isConnected, command, 0, "", <<>>)
    /\ hostResponses' = Append(hostResponses, Response(command, TRUE, <<>>))
    /\ UNCHANGED <<socket, isConnected, pendingRequests, breakpoints, renpyProcess, buffer,
                   launchPc, promise, timeout, hostEvents, terminalText, dispatched,
                   resumed, answered, remoteClosed, disconnects, input, pos, feeds,
                   portVars, looping, extVars>>

StepRequest(command, threadId) ==
    /\ Initialized
    /\ OpsDone + feeds < MaxInputs
    /\ SendDAPRequest(isConnected, command, threadId, "", <<>>)
    /\ hostResponses' = Append(hostResponses, Response(command, TRUE, <<>>))
    /\ UNCHANGED <<socket, isConnected, pendingRequests, breakpoints, renpyProcess, buffer,
                   launchPc, promise, timeout, hostEvents, terminalText, dispatched,
                   resumed, answered, remoteClosed, disconnects, input, pos, feeds,
                   portVars, looping, extVars>>

\* socket.destroy() of a live socket makes it emit 'close'; of a destroyed
\* one it does nothing.
Destroy(s) == IF s \in {"connecting", "open"} THEN "closing" ELSE s

Dispose(p) == IF p = "unset" THEN p ELSE "disposed"

DisconnectRequest ==
    /\ Initialized
    /\ disconnects < MaxDisconnects
    /\ disconnects' = disconnects + 1
    /\ socket' = Destroy(socket)
    /\ renpyProcess' = Dispose(renpyProcess)
    /\ hostResponses' = Append(hostResponses, Response("disconnect", TRUE, <<>>))
    /\ UNCHANGED <<isConnected, sequenceNumber, pendingRequests, breakpoints, buffer,
                   launchPc, promise, timeout, requests, wire, hostEvents, terminalText,
                   dispatched, resumed, answered, remoteClosed, input, pos, feeds,
                   portVars, looping, extVars>>

(***************************************************************************)
(* The remote: it answers requests in any order, with success or failure,  *)
(* may answer a request nobody sent, and emits events.                     *)
(***************************************************************************)
CommandOf(seq) ==
    IF seq \in DOMAIN requests THEN requests[seq].name ELSE "none"

RemoteResponses ==
    {Message("response", 0, CommandOf(rs), rs, ok, FALSE, "", 0, "", <<>>,
             IF ok THEN <<>> ELSE <<"a">>) :
        rs \in (1..sequenceNumber) \ answered, ok \in BOOLEAN}

\* stopped events with reason and thread id, with both omitted, and without
\* a body; an event the bridge does not translate.
RemoteEvents ==
    {Message("event", 0, "stopped", 0, FALSE, TRUE, r, t, "", <<>>, <<>>) :
        <<r, t>> \in {<<"", 0>>, <<"step", 1>>}}
    \cup {Message("event", 0, "stopped", 0, FALSE, FALSE, "", 0, "", <<>>, <<>>)}
    \cup {Message("event", 0, "thread", 0, FALSE, TRUE, "", 1, "", <<>>, <<>>)}

\* Messages whose content fits another kind: a response that carries the
\* fields of a stopped event, and an event that carries the sequence
\* numbers of the handshake request.
CrossKindMessages ==
    {Message("response", 0, "stopped", sequenceNumber, TRUE, TRUE, "step", 1, "", <<>>, <<>>),
     Message("event", 1, "stopped", 1, FALSE, TRUE, "step", 1, "", <<>>, <<>>)}

\* A well-formed frame as the remote writes it: Content-Length is the
\* number of bytes of the UTF-8 payload.
RemoteFrame(m) ==
    LET payload == Utf8Encode(JSONStringify(m))
    IN  ContentLengthKey \o NumberToString(Len(payload)) \o HeaderEnd \o payload

\* One 'data' event carrying one whole frame.
RemoteSends(m) ==
    /\ socket = "open"
    /\ OpsDone + feeds < MaxInputs
    /\ feeds' = feeds + 1
    /\ answered' = IF m.type = "response" THEN answered \cup {m.request_seq} ELSE answered
    /\ OnSocketData(RemoteFrame(m))
    /\ UNCHANGED <<socket, isConnected, sequenceNumber, breakpoints, renpyProcess, launchPc,
                   promise, timeout, requests, wire, hostResponses, terminalText,
                   remoteClosed, disconnects, input, pos, portVars, looping, extVars>>

(***************************************************************************)
(* The session specification.                                              *)
(***************************************************************************)
\* The debug sessions of the host: sessions 1 and 2 have type "renpy",
\* session 3 has type "renpy-dap".
Sessions == {1, 2, 3}
SessionType(s) == IF s = 3 THEN "renpy-dap" ELSE "renpy"

\* SceneInspectorProvider after construction; no session, timer or request.
InspectorInit ==
    /\ sceneState = "null"
    /\ activeSession = 0
    /\ refreshInterval = 0
    /\ timers = {}
    /\ inflight = [s \in Sessions |-> 0]
    /\ sessions = [s \in Sessions |-> "none"]
    /\ refreshes = 0

\* RenpyDebugSession after construction.
ModeInit ==
    /\ program = ""
    /\ modePc = "created"
    /\ modeLog = <<>>

SessionInit ==
    /\ InspectorInit
    /\ ModeInit
    /\ socket = "none"
    /\ isConnected = FALSE
    /\ sequenceNumber = 1
    /\ pendingRequests = {}
    /\ breakpoints = <<>>
    /\ renpyProcess = "unset"
    /\ buffer = <<>>
    /\ launchPc = "created"
    /\ promise = "none"
    /\ timeout = "none"
    /\ requests = <<>>
    /\ wire = <<>>
    /\ hostResponses = <<>>
    /\ hostEvents = <<>>
    /\ terminalText = 0
    /\ dispatched = <<>>
    /\ resumed = {}
    /\ answered = {}
    /\ remoteClosed = FALSE
    /\ disconnects = 0
    /\ pos = 0
    /\ feeds = 0
    /\ launchArgs = NoArgs
    /\ commandPort = 0
    /\ connectPort = 0
    /\ looping = FALSE

Init == SessionInit /\ input = <<>>

Next ==
    \/ InitializeRequest
    \/ \E v \in BOOLEAN : LaunchRequest(v, NoArgs)
    \/ StartTimerFires
    \/ AttachRequest(NoArgs)
    \/ SocketConnect
    \/ SocketError
    \/ RemoteEnd
    \/ SocketClose
    \/ TimeoutFires
    \/ \E p \in SourcePaths, l \in LineLists : SetBreakPointsRequest(p, l)
    \/ ConfigurationDoneRequest
    \/ \E c \in StepCommands, t \in ThreadIds : StepRequest(c, t)
    \/ DisconnectRequest
    \/ \E m \in RemoteResponses \cup RemoteEvents \cup CrossKindMessages : RemoteSends(m)

Spec == Init /\ [][Next]_vars

\* The events Node runs without further input: a destroyed socket emits
\* 'close', an armed timer fires, a connection attempt ends one way or the other.
FairSpec ==
    /\ Spec
    /\ WF_vars(SocketClose)
    /\ WF_vars(StartTimerFires)
    /\ WF_vars(TimeoutFires)
    /\ WF_vars(SocketConnect \/ SocketError)

(***************************************************************************)
(* Properties of the session.                                              *)
(***************************************************************************)
TerminatedCount == Cardinality({i \in DOMAIN hostEvents : hostEvents[i].event = "terminated"})
Terminated == TerminatedCount > 0
SentSeqs == {requests[i].seq : i \in DOMAIN requests}

\* C1: every response the remote delivers for a request that was sent
\* resumes the caller of that request (and no response resumes a caller
\* of another request).
ResponsesReachTheirCaller ==
    /\ \A i \in DOMAIN dispatched :
          (dispatched[i].type = "response" /\ dispatched[i].request_seq \in SentSeqs)
              => dispatched[i].request_seq \in resumed
    /\ resumed \subseteq {dispatched[i].request_seq : i \in DOMAIN dispatched}

\* C2: the sequence numbers of the requests written to the remote start
\* at 1 and strictly increase in issue order (so they are pairwise
\* distinct), whatever the host, the socket and the remote do.
SequenceNumbersIncrease ==
    /\ Len(wire) = Len(requests)
    /\ \A i \in DOMAIN requests :
          /\ wire[i] = Frame(JSONStringify(requests[i]))
          /\ (i = 1 => requests[i].seq = 1)
          /\ (i > 1 => requests[i].seq > requests[i - 1].seq)

\* Three requests written, across a disconnect.
SequenceNumbersWitness == Len(requests) = 3 /\ disconnects > 0

\* C3: once the transport has closed, every request that was sent and not
\* answered has had its caller resumed (with the connection-lost failure),
\* and the pending table is empty.
PendingResolvedOnClose ==
    socket = "closed" =>
        /\ \A s \in SentSeqs : s \in answered \/ s \in resumed
        /\ pendingRequests = {}

\* C4: after a transport close has ended the session, a forwarded host
\* operation is answered with a failure.
OperationsFailAfterClose ==
    [][(/\ socket = "closed"
        /\ remoteClosed
        /\ Len(hostResponses') = Len(hostResponses) + 1
        /\ hostResponses'[Len(hostResponses')].command \in Forwarded)
          => ~hostResponses'[Len(hostResponses')].success]_vars

\* C5: when the remote closes the socket of a connected session, the host
\* eventually gets the terminated notification.
RemoteCloseLeadsToTerminated == remoteClosed ~> Terminated

\* The remote closed a connected session, the host never disconnected, and
\* the terminated notification was sent.
RemoteCloseWitness == remoteClosed /\ disconnects = 0 /\ Terminated

\* C6: the host gets at most one terminated notification, and once it has
\* got it a further trigger (a disconnect request, a socket event) changes
\* no session state.
TerminationIdempotent ==
    [][/\ TerminatedCount' <= 1
       /\ (Terminated /\ (disconnects' # disconnects \/ socket' # socket))
             => UNCHANGED <<socket, isConnected, sequenceNumber, pendingRequests,
                            breakpoints, renpyProcess, buffer>>]_vars

\* C7: whenever the host has been told terminated, the socket is closed
\* and a process this session launched has been disposed.
TerminatedReleasesAll ==
    Terminated => (socket = "closed" /\ renpyProcess # "running")

\* C8: a disconnect request, in whatever state it is handled, leads to the
\* terminated notification.
DisconnectLeadsToTerminated == (disconnects > 0) ~> Terminated

\* C13: a setBreakpoints call for a path records exactly the list of that
\* call for the path (replacing what was recorded), leaves the other paths'
\* lists as they were, and no other step changes a recorded list, so the
\* list recorded for a path is always that of the last call for it; the
\* request the call writes to the remote carries the path and exactly that
\* list (a call made while not connected writes no request).
BreakpointsFullReplace ==
    [][/\ \A p \in SourcePaths \ {""}, l \in LineLists :
             SetBreakPointsRequest(p, l) =>
                 /\ p \in DOMAIN breakpoints'
                 /\ breakpoints'[p] = l
                 /\ \A q \in DOMAIN breakpoints' \ {p} :
                        q \in DOMAIN breakpoints /\ breakpoints'[q] = breakpoints[q]
                 /\ IF isConnected
                    THEN /\ requests' = Append(requests,
                                Request(sequenceNumber, "setBreakpoints", 0, p, l))
                         /\ wire' = Append(wire, Frame(JSONStringify(
                                Request(sequenceNumber, "setBreakpoints", 0, p, l))))
                    ELSE requests' = requests /\ wire' = wire
       /\ (~\E p \in SourcePaths \ {""}, l \in LineLists : SetBreakPointsRequest(p, l))
             => breakpoints' = breakpoints]_vars

\* Two calls for one path while connected: the second, with an empty list,
\* replaced the lines of the first, and both lists went to the remote.
BreakpointsReplacedWitness ==
    /\ Len(requests) = 3
    /\ requests[2].name = "setBreakpoints" /\ requests[2].lines = <<2, 1>>
    /\ requests[3].name = "setBreakpoints" /\ requests[3].lines = <<>>
    /\ requests[2].path = "/game/script.rpy" /\ requests[3].path = "/game/script.rpy"
    /\ breakpoints = [p \in {"/game/script.rpy"} |-> <<>>]

\* C14: a setBreakpoints call with a path is answered at once with one
\* entry per requested breakpoint, in the requested order, each verified
\* and with the requested line, connected or not; and no later step (an
\* answer of the remote among them) changes a response already given.
BreakpointsAllVerified ==
    [][/\ \A p \in SourcePaths \ {""}, l \in LineLists :
             SetBreakPointsRequest(p, l) =>
                 /\ Len(hostResponses') = Len(hostResponses) + 1
                 /\ LET r == hostResponses'[Len(hostResponses')]
                    IN  /\ r.command = "setBreakpoints"
                        /\ r.success
                        /\ Len(r.body) = Len(l)
                        /\ \A i \in 1..Len(l) : r.body[i].verified /\ r.body[i].line = l[i]
       /\ Len(hostResponses') >= Len(hostResponses)
       /\ \A i \in DOMAIN hostResponses : hostResponses'[i] = hostResponses[i]]_vars

\* The remote answered a forwarded setBreakpoints with a failure; the host
\* has its response with both breakpoints verified, in the requested order.
BreakpointsVerifiedWitness ==
    /\ \E i \in DOMAIN dispatched :
          /\ dispatched[i].type = "response"
          /\ ~dispatched[i].success
          /\ CommandOf(dispatched[i].request_seq) = "setBreakpoints"
    /\ \E i \in DOMAIN hostResponses :
          /\ hostResponses[i].command = "setBreakpoints"
          /\ hostResponses[i].body =
                <<[verified |-> TRUE, line |-> 2], [verified |-> TRUE, line |-> 1]>>

LaunchFailed ==
    \E i \in DOMAIN hostResponses :
        hostResponses[i].command = "launch" /\ ~hostResponses[i].success

\* C15: a launch that has started the debuggee is reported failed only
\* when the total timeout has elapsed: a refused connection attempt while
\* the timer is still running does not fail the launch (it is retried).
RefusedAttemptIsRetried ==
    (LaunchFailed /\ terminalText > 0) => timeout = "fired"

\* C16: once the host has the launch failure response, the process this
\* launch started is no longer running (it was terminated before the
\* failure was reported).
FailedLaunchLeavesNoProcess ==
    LaunchFailed => renpyProcess # "running"

LaunchResponses ==
    {i \in DOMAIN hostResponses : hostResponses[i].command = "launch"}

\* C17: a launch whose executable is unset or does not exist sends no
\* command to a terminal, creates no socket and no process, arms no timer,
\* and gives the host one launch failure response; and once a launch or
\* attach has been answered nothing starts a process or a connection
\* again, and no further launch response is given.
InvalidExecutableFailsFast ==
    [][/\ LaunchRequest(FALSE, NoArgs) =>
             /\ terminalText' = 0
             /\ renpyProcess' = "unset"
             /\ socket' = "none"
             /\ promise' = "none"
             /\ timeout' = "none"
             /\ requests' = <<>>
             /\ hostResponses' = Append(hostResponses, Response("launch", FALSE, <<>>))
             /\ Cardinality(LaunchResponses') = 1
             /\ launchPc' = "done"
       /\ launchPc = "done" =>
             /\ terminalText' = terminalText
             /\ (renpyProcess' = "running" => renpyProcess = "running")
             /\ (socket' = "connecting" => socket = "connecting")
             /\ (socket = "none" => socket' = "none")
             /\ LaunchResponses' = LaunchResponses
             /\ launchPc' = "done"]_vars

\* After the failed launch the host went on (a forwarded operation and a
\* disconnect): still no terminal command, no socket, one launch response.
InvalidExecutableWitness ==
    /\ LaunchFailed
    /\ terminalText = 0
    /\ socket = "none"
    /\ renpyProcess = "unset"
    /\ Cardinality(LaunchResponses) = 1
    /\ OpsDone > 0
    /\ disconnects > 0

\* C18: the launch or attach request is answered with success only after
\* the remote's response to the handshake request (initialize, seq 1) has
\* been received.
SuccessAfterHandshake ==
    (\E i \in DOMAIN hostResponses :
        hostResponses[i].command \in {"launch", "attach"} /\ hostResponses[i].success)
      => \E j \in DOMAIN dispatched :
            /\ dispatched[j].type = "response"
            /\ dispatched[j].request_seq = 1
            /\ dispatched[j].name = "initialize"

StoppedNotifications == SelectSeq(hostEvents, LAMBDA e : e.event = "stopped")

\* The stopped events received, in order (an event without a body is
\* dropped as a frame whose handling fails).
StoppedInbound ==
    SelectSeq(dispatched, LAMBDA m : m.type = "event" /\ m.name = "stopped" /\ m.hasBody)

RemoteFailureSurfaced ==
    \A j \in DOMAIN dispatched :
        (/\ dispatched[j].type = "response"
         /\ ~dispatched[j].success
         /\ CommandOf(dispatched[j].request_seq) \in Forwarded)
          => \E i \in DOMAIN hostResponses :
                /\ hostResponses[i].command = CommandOf(dispatched[j].request_seq)
                /\ ~hostResponses[i].success

\* C21: a step in which a response is received whose request_seq has no
\* pending entry changes no session state (no pending entry removed, no
\* caller resumed, nothing sent to the host, connection and process as
\* before, so the session is not terminated); and no step removes more
\* than one pending entry.
UnmatchedResponseDiscarded ==
    [][/\ (/\ Len(dispatched') = Len(dispatched) + 1
           /\ dispatched'[Len(dispatched')].type = "response"
           /\ dispatched'[Len(dispatched')].request_seq \notin pendingRequests)
             => UNCHANGED <<socket, isConnected, sequenceNumber, pendingRequests,
                            breakpoints, renpyProcess, buffer, launchPc, promise, timeout,
                            requests, wire, hostResponses, hostEvents, terminalText,
                            resumed>>
       /\ Cardinality(pendingRequests \ pendingRequests') <= 1]_vars

\* A response for a request that was never sent has been received; the
\* session is connected and the host has no terminated notification.
UnmatchedResponseWitness ==
    /\ \E j \in DOMAIN dispatched :
          dispatched[j].type = "response" /\ dispatched[j].request_seq \notin SentSeqs
    /\ \E j \in DOMAIN dispatched :
          dispatched[j].type = "response" /\ dispatched[j].request_seq \in SentSeqs
    /\ isConnected
    /\ socket = "open"
    /\ ~Terminated

TranslatedEvents == {"stopped", "breakpoint", "output"}

\* C23: a step in which an event with a name other than stopped,
\* breakpoint and output is received gives the host nothing, changes no
\* session state (the connection stays up, so the session is not
\* terminated) and leaves the decode buffer empty for the frames that
\* follow.
UnknownEventIgnored ==
    [][(/\ Len(dispatched') = Len(dispatched) + 1
        /\ dispatched'[Len(dispatched')].type = "event"
        /\ dispatched'[Len(dispatched')].name \notin TranslatedEvents)
          => /\ UNCHANGED <<socket, isConnected, sequenceNumber, pendingRequests,
                            breakpoints, renpyProcess, launchPc, promise, timeout,
                            requests, wire, hostResponses, hostEvents, terminalText,
                            resumed>>
             /\ buffer' = <<>>]_vars

\* An event named thread was received and then a stopped event: the host
\* has the stopped notification and nothing for the thread event, and the
\* session is still connected.
UnknownEventWitness ==
    /\ Len(dispatched) = 2
    /\ dispatched[1].type = "event" /\ dispatched[1].name = "thread"
    /\ dispatched[2].type = "event" /\ dispatched[2].name = "stopped"
    /\ Len(StoppedNotifications) = 1
    /\ isConnected
    /\ ~Terminated

\* C27: the writes to the socket only grow at the end, by one write per
\* request built; the write is one complete frame of that request (the
\* decoder cuts exactly the request's JSON out of it and nothing is left
\* over); a host operation that writes, writes the request of its own
\* command; and a step that receives inbound data writes nothing.
WritesAreWholeFramesInOrder ==
    [][/\ Len(wire') >= Len(wire)
       /\ SubSeq(wire', 1, Len(wire)) = wire
       /\ Len(wire') <= Len(wire) + 1
       /\ Len(wire') = Len(requests')
       /\ Len(wire') = Len(wire) + 1 =>
             LET it == Iteration(wire'[Len(wire')])
             IN  /\ ~it.stop
                 /\ it.hasJson
                 /\ it.buffer = <<>>
                 /\ JSONParse(it.jsonContent) = requests'[Len(requests')]
                 /\ requests'[Len(requests')].seq = sequenceNumber
       /\ (/\ Len(wire') = Len(wire) + 1
           /\ Len(hostResponses') = Len(hostResponses) + 1
           /\ hostResponses'[Len(hostResponses')].command \in Forwarded)
             => requests'[Len(requests')].name = hostResponses'[Len(hostResponses')].command
       /\ dispatched' # dispatched => wire' = wire]_vars

\* The handshake and two host operations were written, in the order the
\* host issued them.
WritesInOrderWitness ==
    /\ Len(wire) = 3
    /\ requests[1].name = "initialize"
    /\ requests[2].name = "setBreakpoints"
    /\ requests[3].name = "continue"
    /\ \E i, j \in DOMAIN hostResponses :
          /\ i < j
          /\ hostResponses[i].command = "setBreakpoints"
          /\ hostResponses[j].command = "continue"

\* C28: a step that receives a message of type event leaves the pending
\* table and the resumed callers as they are, whatever sequence numbers
\* the event carries; a step that receives a message of type response
\* gives the host nothing.
RoutedByType ==
    [][/\ (/\ Len(dispatched') = Len(dispatched) + 1
           /\ dispatched'[Len(dispatched')].type = "event")
             => pendingRequests' = pendingRequests /\ resumed' = resumed
       /\ (/\ Len(dispatched') = Len(dispatched) + 1
           /\ dispatched'[Len(dispatched')].type = "response")
             => hostEvents' = hostEvents]_vars

\* A response that carries the fields of a stopped event was received and
\* gave no notification; an event that carries the sequence numbers of the
\* handshake request was received and gave the stopped notification.
RoutedByTypeWitness ==
    /\ Len(dispatched) = 2
    /\ \E j \in DOMAIN dispatched :
          dispatched[j].type = "response" /\ dispatched[j].name = "stopped"
    /\ \E j \in DOMAIN dispatched :
          /\ dispatched[j].type = "event"
          /\ dispatched[j].request_seq \in SentSeqs
    /\ Len(StoppedNotifications) = 1
    /\ resumed = {}

\* C29: a continue, next, stepIn, stepOut or pause of the host in a
\* connected session writes one frame, from which the decoder's loop body
\* cuts the JSON text of one request and leaves nothing; the request names
\* that command, the host's thread id and the counter's value; the counter
\* grows by one;
\* the breakpoint sets, the decode buffer, the connection state and the
\* process reference stay as they were.
SteppingWritesOneRequest ==
    [][\A c \in StepCommands, t \in ThreadIds :
          (/\ isConnected
           /\ Len(hostResponses') = Len(hostResponses) + 1
           /\ hostResponses'[Len(hostResponses')].command = c
           /\ StepRequest(c, t)) =>
             /\ Len(wire') = Len(wire) + 1
             /\ SubSeq(wire', 1, Len(wire)) = wire
             /\ Iteration(wire'[Len(wire')]) =
                    [stop |-> FALSE, buffer |-> <<>>, hasJson |-> TRUE,
                     jsonContent |-> JSONStringify(requests'[Len(requests')])]
             /\ requests' = Append(requests, requests'[Len(requests')])
             /\ requests'[Len(requests')].type = "request"
             /\ requests'[Len(requests')].name = c
             /\ requests'[Len(requests')].threadId = t
             /\ requests'[Len(requests')].seq = sequenceNumber
             /\ sequenceNumber' = sequenceNumber + 1
             /\ UNCHANGED <<breakpoints, buffer, socket, isConnected, renpyProcess,
                            pendingRequests>>]_vars

\* Stepping requests of two commands and two thread ids were written after
\* the handshake, and breakpoints set before them are still held.
SteppingWitness ==
    /\ isConnected
    /\ Len(requests) = 3
    /\ requests[2].name = "pause" /\ requests[2].threadId = 2
    /\ requests[3].name = "stepOut" /\ requests[3].threadId = 1
    /\ sequenceNumber = 4

(***************************************************************************)
(* The launch specification: launch and attach with every configuration,   *)
(* the socket events, the timers and disconnect.                           *)
(***************************************************************************)
LaunchNext ==
    \/ InitializeRequest
    \/ \E v \in BOOLEAN, a \in LaunchConfigs : LaunchRequest(v, a)
    \/ StartTimerFires
    \/ \E a \in AttachConfigs : AttachRequest(a)
    \/ SocketConnect
    \/ SocketError
    \/ RemoteEnd
    \/ SocketClose
    \/ TimeoutFires
    \/ DisconnectRequest

LaunchSpec == Init /\ [][LaunchNext]_vars

\* C22: a launch whose configuration gives debugPort starts the debuggee
\* with that port and connects to that port.
LaunchUsesDebugPort ==
    (commandPort # 0 /\ launchArgs.debugPort # 0)
        => /\ commandPort = launchArgs.debugPort
           /\ connectPort # 0 => connectPort = launchArgs.debugPort

\* The timers run; whether and when the endpoint accepts or refuses is
\* left open.
TimerFairLaunchSpec ==
    /\ LaunchSpec
    /\ WF_vars(StartTimerFires)
    /\ WF_vars(TimeoutFires)
    /\ WF_vars(SocketClose)

\* C24: a connection attempt is settled no later than its timeout (the
\* promise is pending only while the timer is armed, and does not stay
\* pending); when the timer expires on a pending attempt the launch or
\* attach is answered with a failure; and a session makes its attempt
\* once: no step starts connecting again or connects to another port.
ConnectSettlesByTimeout ==
    /\ [](promise = "pending" => timeout = "armed")
    /\ (promise = "pending") ~> (promise \in {"resolved", "rejected"})
    /\ [][/\ (timeout = "armed" /\ timeout' = "fired" /\ promise = "pending")
              => /\ promise' = "rejected"
                 /\ Len(hostResponses') = Len(hostResponses) + 1
                 /\ hostResponses'[Len(hostResponses')].command \in {"launch", "attach"}
                 /\ ~hostResponses'[Len(hostResponses')].success
          /\ (socket' = "connecting" => socket \in {"none", "connecting"})
          /\ (connectPort # 0 => connectPort' = connectPort)]_vars

\* The endpoint neither accepted nor refused: the timer fired, the attempt
\* was reported as failed, and the socket is still connecting.
ConnectTimeoutWitness ==
    /\ timeout = "fired"
    /\ promise = "rejected"
    /\ socket = "connecting"
    /\ \E i \in DOMAIN hostResponses :
          hostResponses[i].command \in {"launch", "attach"} /\ ~hostResponses[i].success

(***************************************************************************)
(* The codec specification: a connected session is fed a byte stream in    *)
(* chunks of every size.                                                   *)
(***************************************************************************)
CodecMessages ==
    {Message("request", 1, "continue", 0, FALSE, FALSE, "", 1, "", <<>>, <<EAcute>>),
     Message("response", 2, "initialize", 1, TRUE, FALSE, "", 0, "", <<>>, <<>>),
     Message("event", 3, "output", 0, FALSE, TRUE, "", 0, "", <<>>, <<EAcute, "a">>),
     Message("event", 4, "stopped", 0, FALSE, TRUE, "step", 1, "", <<>>, <<>>)}

\* What the socket carries for a frame the bridge's encoder produced.
BridgeBytes(m) == Utf8Encode(Frame(JSONStringify(m)))

RemoteFrames == {RemoteFrame(m) : m \in CodecMessages}
BridgeFrames == {BridgeBytes(m) : m \in CodecMessages}

StreamsOf(frames) ==
    UNION {{Flatten(fs) : fs \in [1..n -> frames]} : n \in 1..MaxFrames}

RemoteStreams == StreamsOf(RemoteFrames)
Streams == StreamsOf(RemoteFrames \cup BridgeFrames)

\* One 'data' event carrying the next k bytes of the stream.
FeedChunk(k) ==
    /\ socket = "open"
    /\ pos + k <= Len(input)
    /\ pos' = pos + k
    /\ feeds' = IF feeds < MaxInputs THEN feeds + 1 ELSE feeds
    /\ OnSocketData(SubSeq(input, pos + 1, pos + k))
    /\ UNCHANGED <<socket, isConnected, sequenceNumber, breakpoints, renpyProcess, launchPc,
                   promise, timeout, requests, wire, hostResponses, terminalText, answered,
                   remoteClosed, disconnects, input, portVars, looping, extVars>>

CodecInit == SessionInit /\ input \in Streams

CodecNext ==
    \/ InitializeRequest
    \/ AttachRequest(NoArgs)
    \/ SocketConnect
    \/ \E k \in 1..Len(input) : FeedChunk(k)

CodecSpec == CodecInit /\ [][CodecNext]_vars

\* handleDAPMessage on a whole stream in one call, from an empty buffer.
WholeFeed(bytes) ==
    HandleDAPMessage(<<>>,
        [hostEvents |-> <<>>, pendingRequests |-> {}, resumed |-> {}, dispatched |-> <<>>],
        BufferToString(bytes))

\* C9: once a stream of well-formed frames has been fed completely, in
\* whatever chunks, the messages dispatched are those that one feed of the
\* whole stream dispatches, in the same order.
ChunkingInvariant ==
    (input \in RemoteStreams /\ pos = Len(input))
        => dispatched = WholeFeed(input).st.dispatched

\* C10: a frame of the bridge's encoder, fed to the bridge's decoder in one
\* 'data' event, is dispatched as exactly the message that was encoded, and
\* the buffer is left empty.
EncodeDecodeRoundTrip ==
    \A m \in CodecMessages :
        (input = BridgeBytes(m) /\ pos = Len(input) /\ feeds = 1)
            => (dispatched = <<m>> /\ buffer = <<>>)

\* A message with a two-byte character went through encoder and decoder.
RoundTripWitness ==
    \E m \in CodecMessages :
        /\ EAcute \in Range(m.text)
        /\ input = BridgeBytes(m)
        /\ pos = Len(input)
        /\ feeds = 1
        /\ dispatched = <<m>>

\* The number a frame's header states, read as the decoder reads it.
StatedLength(frame) ==
    ParseInt(ContentLengthMatch(Substring(frame, 0, IndexOf(frame, HeaderEnd))))

\* C11: the Content-Length the encoder writes is the number of bytes of the
\* UTF-8 encoded payload that follows, and the decoder, given a frame whose
\* header states that number of bytes, takes exactly the payload (the
\* message is dispatched and nothing is left in the buffer).
ContentLengthIsByteLength ==
    \A m \in CodecMessages :
        /\ input = BridgeBytes(m)
              => StatedLength(Frame(JSONStringify(m))) = Len(Utf8Encode(JSONStringify(m)))
        /\ (input = RemoteFrame(m) /\ pos = Len(input))
              => (dispatched = <<m>> /\ buffer = <<>>)

MessageLists == UNION {[1..n -> CodecMessages] : n \in 1..MaxFrames}
RemoteStream(ms) == Flatten([i \in 1..Len(ms) |-> RemoteFrame(ms[i])])

\* The number of frames of the stream of ms that lie completely within
\* its first n bytes.
CompleteFrames(ms, n) ==
    CHOOSE k \in 0..Len(ms) :
        /\ Len(RemoteStream(SubSeq(ms, 1, k))) <= n
        /\ \A j \in (k + 1)..Len(ms) : Len(RemoteStream(SubSeq(ms, 1, j))) > n

\* C25: at every point of the feeding of a stream of well-formed frames,
\* the messages dispatched are those of the frames completely received, in
\* wire order, and the buffer holds exactly the bytes received after the
\* last complete frame.
CompleteFramesDispatched ==
    \A ms \in MessageLists :
        input = RemoteStream(ms) =>
            LET k == CompleteFrames(ms, pos)
            IN  /\ dispatched = SubSeq(ms, 1, k)
                /\ buffer = BufferToString(
                       SubSeq(input, Len(RemoteStream(SubSeq(ms, 1, k))) + 1, pos))

(***************************************************************************)
(* The codec on streams that begin with a header block without a           *)
(* parseable Content-Length.                                               *)
(***************************************************************************)
MalformedHeaders ==
    {<<"X", ":", "1">> \o HeaderEnd,
     ContentLengthKey \o <<"x">> \o HeaderEnd}

MalformedCases ==
    {[bad |-> b, msgs |-> ms] :
        b \in MalformedHeaders,
        ms \in UNION {[1..n -> CodecMessages] : n \in 1..MaxFrames}}

FollowingFrames(c) == Flatten([i \in 1..Len(c.msgs) |-> RemoteFrame(c.msgs[i])])
StreamOf(c) == c.bad \o FollowingFrames(c)
IsAscii(c) == \A i \in 1..Len(c.msgs) : EAcute \notin Range(c.msgs[i].text)

MalformedInit == SessionInit /\ input \in {StreamOf(c) : c \in MalformedCases}

MalformedSpec == MalformedInit /\ [][CodecNext]_vars

DataArrives(k) ==
    /\ socket = "open"
    /\ ~looping
    /\ pos + k <= Len(input)
    /\ pos' = pos + k
    /\ feeds' = IF feeds < MaxInputs THEN feeds + 1 ELSE feeds
    /\ buffer' = buffer \o BufferToString(SubSeq(input, pos + 1, pos + k))
    /\ looping' = TRUE
    /\ UNCHANGED <<socket, isConnected, sequenceNumber, pendingRequests, breakpoints,
                   renpyProcess, launchPc, promise, timeout, requests, wire, hostResponses,
                   hostEvents, terminalText, dispatched, resumed, answered, remoteClosed,
                   disconnects, input, portVars, extVars>>

\* One pass through the loop body; a break ends the call.
LoopIteration ==
    /\ looping
    /\ LET it == Iteration(buffer)
           st == [hostEvents |-> hostEvents, pendingRequests |-> pendingRequests,
                  resumed |-> resumed, dispatched |-> dispatched]
           r  == IF it.hasJson THEN TryProcess(st, it.jsonContent) ELSE st
       IN  /\ looping' = ~it.stop
           /\ buffer' = it.buffer
           /\ hostEvents' = r.hostEvents
           /\ pendingRequests' = r.pendingRequests
           /\ resumed' = r.resumed
           /\ dispatched' = r.dispatched
    /\ UNCHANGED <<socket, isConnected, sequenceNumber, breakpoints, renpyProcess, launchPc,
                   promise, timeout, requests, wire, hostResponses, terminalText, answered,
                   remoteClosed, disconnects, input, pos, feeds, portVars, extVars>>

ZeroLengthFrame == ContentLengthKey \o <<"0">> \o HeaderEnd

DecoderStreams ==
    Streams
    \cup {StreamOf(c) : c \in MalformedCases}
    \cup {ZeroLengthFrame \o f : f \in RemoteFrames}

DecoderInit == SessionInit /\ input \in DecoderStreams

DecoderNext ==
    \/ InitializeRequest
    \/ AttachRequest(NoArgs)
    \/ SocketConnect
    \/ \E k \in 1..Len(input) : DataArrives(k)
    \/ LoopIteration

DecoderSpec == DecoderInit /\ [][DecoderNext]_vars

\* C26: every call of the decoder returns: whatever the buffer holds when
\* the loop is about to make a pass, the pass either breaks, leaving the
\* buffer as it is, or leaves a strictly shorter buffer (so the length of
\* the buffer bounds the number of passes of a call).
DecoderTerminates ==
    looping =>
        LET it == Iteration(buffer)
        IN  \/ it.stop /\ it.buffer = buffer
            \/ ~it.stop /\ Len(it.buffer) < Len(buffer)

\* A stream that begins with a header block without Content-Length has
\* been fed in two chunks and the loop has returned from both calls, having
\* skipped the block and dispatched a frame.
DecoderTerminatesWitness ==
    /\ pos = Len(input)
    /\ feeds = 2
    /\ ~looping
    /\ Len(dispatched) >= 1
    /\ \E c \in MalformedCases : input = StreamOf(c)

\* C30: an attach step starts the connection attempt and leaves the
\* process reference unset and the terminal without a command, and they
\* stay so for the rest of an attach session; the connection attempt of a
\* launch starts in a step taken after startRenpyWithDAP has set the
\* process reference, sent the command and finished its wait.
AttachSpawnsNothing ==
    [][/\ \A a \in AttachConfigs :
             AttachRequest(a) =>
                /\ socket' = "connecting" /\ promise' = "pending"
                /\ renpyProcess = "unset" /\ renpyProcess' = "unset"
                /\ terminalText = 0 /\ terminalText' = 0
                /\ commandPort' = 0
                /\ hostEvents' = hostEvents
       /\ (launchPc = "attaching" \/ \E i \in DOMAIN hostResponses :
                                        hostResponses[i].command = "attach")
             => renpyProcess' = "unset" /\ terminalText' = 0
       /\ (launchPc' = "launching" /\ socket' = "connecting" /\ launchPc # "launching")
             => /\ launchPc = "starting"
                /\ socket = "none"
                /\ renpyProcess # "unset"
                /\ terminalText = 1]_vars

\* An attach with a configured port was answered with success: the socket
\* is open to that port, no process reference is held and no command was
\* sent to a terminal.
AttachSpawnsNothingWitness ==
    /\ \E i \in DOMAIN hostResponses :
          hostResponses[i].command = "attach" /\ hostResponses[i].success
    /\ isConnected
    /\ connectPort = 5678
    /\ renpyProcess = "unset"
    /\ terminalText = 0

ConnectFailed ==
    \E i \in DOMAIN hostResponses :
        hostResponses[i].command \in {"launch", "attach"} /\ ~hostResponses[i].success

\* C31: once the 10 s timer has fired and the launch or attach has its
\* failure response, the session is not connected and no handshake request
\* has been written: a later 'connect' of the socket of that attempt has
\* no effect.
TimedOutAttemptAbandoned ==
    (ConnectFailed /\ timeout = "fired") => (~isConnected /\ requests = <<>>)

\* C32: between the handling of a disconnect request, which destroys the
\* socket, and the 'close' event of that socket, no step writes a request.
NoWriteAfterDisconnect ==
    [][(disconnects > 0 /\ socket = "closing" /\ ~remoteClosed) => wire' = wire]_vars

ConnectResponses ==
    {i \in DOMAIN hostResponses : hostResponses[i].command \in {"launch", "attach"}}

AnsweredOnce(command) ==
    /\ Len(hostResponses') = Len(hostResponses) + 1
    /\ SubSeq(hostResponses', 1, Len(hostResponses)) = hostResponses
    /\ hostResponses'[Len(hostResponses')].command = command

\* C33: each initialize, setBreakpoints, configurationDone, continue, next,
\* stepIn, stepOut, pause and disconnect step gives the host one response,
\* of its command, connected or not; a launch or attach that has been
\* taken up has no response while it is in progress and exactly one from
\* then on, is not left in progress for ever, and no step gives a response
\* that no request is waiting for.
OneResponsePerRequest ==
    /\ [](Cardinality(ConnectResponses) = IF launchPc = "done" THEN 1 ELSE 0)
    /\ (launchPc \in {"starting", "launching", "attaching"}) ~> (launchPc = "done")
    /\ [][/\ InitializeRequest => AnsweredOnce("initialize")
          /\ DisconnectRequest => AnsweredOnce("disconnect")
          /\ ConfigurationDoneRequest => AnsweredOnce("configurationDone")
          /\ \A c \in StepCommands, t \in ThreadIds : StepRequest(c, t) => AnsweredOnce(c)
          /\ \A p \in SourcePaths, l \in LineLists :
                SetBreakPointsRequest(p, l) => AnsweredOnce("setBreakpoints")
          /\ LaunchRequest(FALSE, NoArgs) => AnsweredOnce("launch")
          /\ (LaunchRequest(TRUE, NoArgs) \/ AttachRequest(NoArgs) \/ StartTimerFires)
                => hostResponses' = hostResponses
          /\ hostResponses' # hostResponses =>
                /\ Len(hostResponses') = Len(hostResponses) + 1
                /\ SubSeq(hostResponses', 1, Len(hostResponses)) = hostResponses
          /\ (launchPc \in {"launching", "attaching"} /\ launchPc' = "done") =>
                AnsweredOnce(IF launchPc = "launching" THEN "launch" ELSE "attach")
          /\ (\E m \in RemoteResponses \cup RemoteEvents \cup CrossKindMessages :
                 RemoteSends(m)) => hostResponses' = hostResponses
          /\ (RemoteEnd \/ SocketClose) => hostResponses' = hostResponses]_vars

\* An attach was refused while the session was not connected, a pause
\* handled in that state was answered, and the timer of the refused
\* attempt has fired since: the host has one attach response, a failure.
OneResponseWitness ==
    /\ timeout = "fired"
    /\ promise = "rejected"
    /\ socket = "closed"
    /\ Cardinality(ConnectResponses) = 1
    /\ \E i \in ConnectResponses : ~hostResponses[i].success
    /\ \E i \in DOMAIN hostResponses : hostResponses[i].command = "pause"
    /\ requests = <<>>

\* C34: a forwarded operation handled while isConnected is false (no
\* socket yet, socket connecting, socket closed) writes nothing and leaves
\* the sequence counter as it is; the requests written carry the numbers
\* 1, 2, 3, ... without a gap, and the counter is the next of them.
NotConnectedWritesNothing ==
    /\ [](/\ \A i \in DOMAIN requests : requests[i].seq = i
          /\ sequenceNumber = Len(requests) + 1)
    /\ [][(/\ ~isConnected
           /\ Len(hostResponses') = Len(hostResponses) + 1
           /\ hostResponses'[Len(hostResponses')].command \in Forwarded)
             => /\ wire' = wire
                /\ requests' = requests
                /\ sequenceNumber' = sequenceNumber]_vars

\* Two forwarded operations were answered in a session whose socket has
\* connected and closed, and the handshake request is the only one written:
\* both were handled while the session was not connected.
NotConnectedWitness ==
    /\ socket = "closed"
    /\ ~isConnected
    /\ OpsDone = 2
    /\ Len(requests) = 1
    /\ sequenceNumber = 2

\* C35: the step in which the socket connects writes the first frame of the
\* session's socket, the initialize request; every request written later
\* is a setBreakpoints, configurationDone or stepping request, and a
\* connected session has written its handshake.
HandshakeFirstAndOnce ==
    /\ [](/\ requests # <<>> => requests[1].name = "initialize"
          /\ \A i \in DOMAIN requests : i > 1 => requests[i].name \in Forwarded
          /\ isConnected => requests # <<>>)
    /\ [][(socket = "connecting" /\ socket' = "open")
             => /\ wire = <<>>
                /\ Len(wire') = 1
                /\ requests' = <<Request(1, "initialize", 0, "", <<>>)>>]_vars

\* The handshake request and two forwarded requests after it have been
\* written on the open socket.
HandshakeFirstWitness ==
    /\ socket = "open"
    /\ Len(wire) = 3
    /\ requests[1].name = "initialize"
    /\ requests[2].name = "configurationDone"
    /\ requests[3].name = "next"

\* C36: a setBreakpoints step for a path leaves every other path recorded
\* or not recorded as it was, with the list it had; a setBreakpoints step
\* whose source has no path leaves the recorded lists, the writes and the
\* sequence counter as they were and answers the host with an empty body.
OtherPathsUntouched ==
    [][/\ \A p \in SourcePaths \ {""}, l \in LineLists :
             SetBreakPointsRequest(p, l) =>
                \A q \in (SourcePaths \cup DOMAIN breakpoints \cup DOMAIN breakpoints') \ {p} :
                    /\ q \in DOMAIN breakpoints' <=> q \in DOMAIN breakpoints
                    /\ q \in DOMAIN breakpoints => breakpoints'[q] = breakpoints[q]
       /\ \A l \in LineLists :
             SetBreakPointsRequest("", l) =>
                /\ breakpoints' = breakpoints
                /\ wire' = wire /\ requests' = requests
                /\ sequenceNumber' = sequenceNumber
                /\ hostResponses' = Append(hostResponses,
                                           Response("setBreakpoints", TRUE, <<>>))]_vars

\* In a connected session two setBreakpoints requests were answered after
\* the attach; one wrote its request and recorded its list, the other, with
\* no path, wrote and recorded nothing.
OtherPathsWitness ==
    /\ socket = "open" /\ isConnected /\ ~remoteClosed /\ disconnects = 0
    /\ Len(hostResponses) = 4
    /\ hostResponses[2].command = "attach"
    /\ hostResponses[3].command = "setBreakpoints"
    /\ hostResponses[4].command = "setBreakpoints"
    /\ Len(requests) = 2
    /\ breakpoints = [p \in {"/game/other.rpy"} |-> <<2, 1>>]

(***************************************************************************)
(* The dropped-frame specification: a frame whose payload is not JSON, or  *)
(* whose handling throws, followed by one or two well-formed frames, fed   *)
(* in chunks of every size.                                                *)
(***************************************************************************)
StoppedWithoutBody ==
    Message("event", 0, "stopped", 0, FALSE, FALSE, "", 0, "", <<>>, <<>>)

BadPayloads ==
    {<<"{", "x", "}">>, <<"{", EAcute, "}">>, JSONStringify(StoppedWithoutBody)}

\* The frame the remote writes for a payload: Content-Length is the number
\* of bytes of its UTF-8 encoding.
RemoteFrameOf(payload) ==
    LET bytes == Utf8Encode(payload)
    IN  ContentLengthKey \o NumberToString(Len(bytes)) \o HeaderEnd \o bytes

FollowingMessages == {m \in CodecMessages : m.type = "event"}

DroppedCases ==
    {[bad |-> b, msgs |-> ms] :
        b \in BadPayloads,
        ms \in UNION {[1..n -> FollowingMessages] : n \in 1..MaxFrames}}

DroppedStream(c) == RemoteFrameOf(c.bad) \o FollowingFrames(c)

DroppedInit == SessionInit /\ input \in {DroppedStream(c) : c \in DroppedCases}

DroppedSpec == DroppedInit /\ [][CodecNext]_vars

ParsedOf(payload) ==
    IF JSONParse(payload) = SyntaxError THEN <<>> ELSE <<JSONParse(payload)>>

\* C37: once a stream that begins with a frame whose payload does not
\* parse, or whose handling throws, has been fed completely, in whatever
\* chunks, that frame is gone with exactly its declared length: every
\* well-formed frame after it has been dispatched, nothing is left in the
\* buffer, and the session is connected and not reported terminated.
DroppedFrameKeepsAlignment ==
    pos = Len(input) =>
        \A c \in DroppedCases :
            input = DroppedStream(c) =>
                /\ dispatched = ParsedOf(c.bad) \o c.msgs
                /\ buffer = <<>>
                /\ ~Terminated
                /\ socket = "open"
                /\ isConnected

(***************************************************************************)
(* The Scene Inspector and the terminal-mode debug session.                *)
(***************************************************************************)
MaxRefreshes == 2    \* customRequest calls of the Scene Inspector per run

\* refresh() up to its await: without an active session the cached state is
\* cleared; otherwise customRequest("getSceneState") goes to that session.
Refresh(active) ==
    IF active = 0
    THEN /\ sceneState' = "null"
         /\ UNCHANGED <<inflight, refreshes>>
    ELSE /\ inflight' = [inflight EXCEPT ![active] = @ + 1]
         /\ refreshes' = refreshes + 1
         /\ UNCHANGED sceneState

\* startAutoRefresh: setInterval gives a new timer, kept in refreshInterval.
StartAutoRefresh(timer) ==
    /\ refreshInterval' = timer
    /\ timers' = timers \cup {timer}

\* stopAutoRefresh: clears the timer kept in refreshInterval, if any.
StopAutoRefresh ==
    IF refreshInterval # 0
    THEN /\ timers' = timers \ {refreshInterval}
         /\ refreshInterval' = 0
    ELSE UNCHANGED <<timers, refreshInterval>>

\* debug.onDidStartDebugSession. The timer a session's start creates is
\* named by the session.
StartDebugSession(s) ==
    /\ sessions[s] = "none"
    /\ sessions' = [sessions EXCEPT ![s] = "running"]
    /\ IF SessionType(s) = "renpy"
       THEN /\ activeSession' = s
            /\ StartAutoRefresh(s)
       ELSE UNCHANGED <<activeSession, refreshInterval, timers>>
    /\ UNCHANGED <<sceneState, inflight, refreshes, dapVars, modeVars>>

\* debug.onDidChangeActiveDebugSession with a running session.
ChangeActiveDebugSession(s) ==
    /\ sessions[s] = "running"
    /\ IF SessionType(s) = "renpy"
       THEN /\ refreshes < MaxRefreshes
            /\ activeSession' = s
            /\ Refresh(s)
       ELSE UNCHANGED <<activeSession, sceneState, inflight, refreshes>>
    /\ UNCHANGED <<refreshInterval, timers, sessions, dapVars, modeVars>>

\* debug.onDidTerminateDebugSession.
TerminateDebugSession(s) ==
    /\ sessions[s] = "running"
    /\ sessions' = [sessions EXCEPT ![s] = "terminated"]
    /\ IF s = activeSession
       THEN /\ activeSession' = 0
            /\ sceneState' = "null"
            /\ StopAutoRefresh
       ELSE UNCHANGED <<activeSession, sceneState, refreshInterval, timers>>
    /\ UNCHANGED <<inflight, refreshes, dapVars, modeVars>>

\* A running interval timer fires: refresh() if there is an active session.
IntervalFires(timer) ==
    /\ timer \in timers
    /\ activeSession # 0
    /\ refreshes < MaxRefreshes
    /\ Refresh(activeSession)
    /\ UNCHANGED <<activeSession, refreshInterval, timers, sessions, dapVars, modeVars>>

\* A customRequest of refresh() settles: on a result the continuation
\* stores it; on an error the catch block does nothing.
RefreshSettles(s, resolved) ==
    /\ inflight[s] > 0
    /\ inflight' = [inflight EXCEPT ![s] = @ - 1]
    /\ sceneState' = IF resolved THEN "state" ELSE sceneState
    /\ UNCHANGED <<activeSession, refreshInterval, timers, sessions, refreshes,
                   dapVars, modeVars>>

Programs == {"", "/missing/renpy.sh", "/opt/renpy/renpy.sh"}
ExistingFiles == {"/opt/renpy/renpy.sh"}
Commands == {"run", ""}

IsValidExecutable(renpyExecutableLocation) ==
    IF renpyExecutableLocation = "" THEN FALSE
    ELSE renpyExecutableLocation \in ExistingFiles

ModeCall(kind, text) == [kind |-> kind, text |-> text]

\* Mutant: the command is sent whatever the executable is.
MutModeInitializeRequestUnchecked(path, command) ==
    /\ modePc = "created"
    /\ modePc' = "done"
    /\ program' = path
    /\ modeLog' = modeLog \o <<ModeCall("show", <<>>),
                               ModeCall("sendText", <<path, command>>),
                               ModeCall("terminated", <<>>)>>
    /\ UNCHANGED <<dapVars, inspectorVars>>

\* RenpyDebugSession.initializeRequest; path is what the configuration
\* gives, command the session's command.
ModeInitializeRequest(path, command) ==
    /\ modePc = "created"
    /\ modePc' = "done"
    /\ program' = path
    /\ IF ~IsValidExecutable(path)
       THEN modeLog' = modeLog \o <<ModeCall("show", <<>>), ModeCall("toast", <<>>)>>
       ELSE modeLog' = modeLog \o <<ModeCall("show", <<>>),
                                    ModeCall("sendText", <<path, command>>),
                                    ModeCall("terminated", <<>>)>>
    /\ UNCHANGED <<dapVars, inspectorVars>>

ExtensionNext ==
    \/ \E s \in Sessions : StartDebugSession(s)
    \/ \E s \in Sessions : ChangeActiveDebugSession(s)
    \/ \E s \in Sessions : TerminateDebugSession(s)
    \/ \E t \in Sessions : IntervalFires(t)
    \/ \E s \in Sessions, r \in BOOLEAN : RefreshSettles(s, r)
    \/ \E p \in Programs, c \in Commands : ModeInitializeRequest(p, c)

ExtensionSpec == Init /\ [][ExtensionNext]_vars

\* C38: whenever the Scene Inspector has no active session it holds no
\* scene state.
NoSessionNoSceneState ==
    activeSession = 0 => sceneState = "null"

\* C39: at most one interval timer of the Scene Inspector is running, and
\* none is running while it has no active session.
OneAutoRefreshTimer ==
    /\ Cardinality(timers) <= 1
    /\ activeSession = 0 => timers = {}

ModeSent == SelectSeq(modeLog, LAMBDA e : e.kind = "sendText")
ModeTerminated == SelectSeq(modeLog, LAMBDA e : e.kind = "terminated")

\* C40: the terminal-mode session sends a command to the terminal only for
\* a valid executable, and then the one terminated notification comes
\* right after the command; for an unset or missing executable its only
\* calls are showing the terminal and the error toast.
TerminalModeRunsOnlyValid ==
    /\ [](/\ ModeSent # <<>> => IsValidExecutable(program)
          /\ Len(ModeSent) <= 1
          /\ Len(ModeTerminated) = Len(ModeSent))
    /\ [][\A p \in Programs, c \in Commands :
             ModeInitializeRequest(p, c) =>
                IF p = "/opt/renpy/renpy.sh"
                THEN modeLog' = <<ModeCall("show", <<>>),
                                  ModeCall("sendText", <<p, c>>),
                                  ModeCall("terminated", <<>>)>>
                ELSE modeLog' = <<ModeCall("show", <<>>), ModeCall("toast", <<>>)>>]_vars

\* The session was initialized with the existing executable: the command
\* was sent and the terminated notification followed.
TerminalModeWitness ==
    /\ modePc = "done"
    /\ program = "/opt/renpy/renpy.sh"
    /\ Len(modeLog) = 3
    /\ modeLog[2].kind = "sendText"
    /\ modeLog[3].kind = "terminated"

====
